---- MODULE Spec2Model ----
(***************************************************************************)
(* Model of mtgscan/text.py (MagicRecognition): the card resolver          *)
(* (search), the keyword filter and resolution loop (box_texts_to_cards),  *)
(* the quantity assigner (assign_stacked) and the deck assembler           *)
(* (box_texts_to_stacked_cards).                                           *)
(*                                                                         *)
(* A Python str is a sequence of one-character strings.  A box is the pair *)
(* <<box[0], box[1]>> of the coordinates the code reads.                   *)
(***************************************************************************)
EXTENDS Integers, Sequences, FiniteSets, TLC

VARIABLES
    cardIndex,   \* self.all_cards: the card names, in insertion order
    keywords,    \* the terms of self.sym_keywords
    box_texts,   \* the BoxTextList given to box_texts_to_stacked_cards
    box_cards,   \* the BoxTextList built by box_texts_to_cards
    origin,      \* history: for each entry of box_cards, the index of its box in box_texts
    searched,    \* history: the indices of the boxes search was called for
    assigned,    \* history: for each count label bound, its index and the entry overwritten
    pos,         \* position of the running loop in box_texts
    maindeck,    \* Deck.maindeck.cards
    sideboard,   \* Deck.sideboard.cards
    text,        \* the argument of a direct call of search
    result,      \* what that call returned
    pc           \* the position in the running operation

vars == <<cardIndex, keywords, box_texts, box_cards, origin, searched, assigned,
          pos, maindeck, sideboard, text, result, pc>>

-----------------------------------------------------------------------------
(* Program constants *)

\* max_ratio_diff = 0.3, as the fraction RatioNum / RatioDen
RatioNum == 3
RatioDen == 10
\* max_ratio_diff_keyword = 0.2, as the fraction KwRatioNum / KwRatioDen
KwRatioNum == 2
KwRatioDen == 10
\* SymSpell(max_dictionary_edit_distance=6) and the min(6, ...) of search
MaxCardEdit == 6
\* SymSpell(max_dictionary_edit_distance=3) and the min(3, ...) of box_texts_to_cards
MaxKeywordEdit == 3
\* search: len(text) < 3 and len(text) > 30
MinTextLen == 3
MaxTextLen == 30
\* search: len(text) < len(card) + 7
LenSlack == 7
\* box_texts_to_stacked_cards: max(60, n_cards - 15)
MainSize == 60
SideSize == 15
\* BoxText's default count
DefaultN == 1

-----------------------------------------------------------------------------
(* Integers and strings *)

Min2(a, b) == IF a <= b THEN a ELSE b
Max2(a, b) == IF a >= b THEN a ELSE b
Min3(a, b, c) == Min2(a, Min2(b, c))

Range(s) == {s[i] : i \in 1..Len(s)}

\* int(ratio * n) for the ratio num/den and n >= 0
IntRatio(num, den, n) == (num * n) \div den

\* "[a-zA-Z]"
Letters ==
    {"a","b","c","d","e","f","g","h","i","j","k","l","m",
     "n","o","p","q","r","s","t","u","v","w","x","y","z",
     "A","B","C","D","E","F","G","H","I","J","K","L","M",
     "N","O","P","Q","R","S","T","U","V","W","X","Y","Z"}

\* the characters "[^a-zA-Z',. ]" keeps
Kept == Letters \cup {"'", ",", ".", " "}

\* the decimal digits, and str.isnumeric characters int() does not parse
\* ("SUP2" stands for the one character SUPERSCRIPT TWO)
Digits == {"0","1","2","3","4","5","6","7","8","9"}
NumericNonDecimal == {"SUP2"}
IsNumeric(c) == c \in Digits \cup NumericNonDecimal

DigitValue(c) ==
    CASE c = "0" -> 0 [] c = "1" -> 1 [] c = "2" -> 2 [] c = "3" -> 3
      [] c = "4" -> 4 [] c = "5" -> 5 [] c = "6" -> 6 [] c = "7" -> 7
      [] c = "8" -> 8 [] c = "9" -> 9

\* the multiplier glyphs; "MULT" stands for the one character MULTIPLICATION SIGN
Glyphs == {"MULT", "x", "X"}

RECURSIVE RStrip(_)
\* s.rstrip(' ')
RStrip(s) ==
    IF Len(s) > 0 /\ s[Len(s)] = " " THEN RStrip(SubSeq(s, 1, Len(s) - 1)) ELSE s

\* s[:i] for i >= 0
Prefix(s, i) == SubSeq(s, 1, Min2(i, Len(s)))

\* s.find(".."): the 0-based index of the first "..", or -1
FindDots(s) ==
    LET hits == {i \in 1..(Len(s) - 1) : s[i] = "." /\ s[i + 1] = "."}
    IN  IF hits = {} THEN -1
        ELSE (CHOOSE i \in hits : \A j \in hits : i <= j) - 1

\* s.replace('.', '')
StripDots(s) == SelectSeq(s, LAMBDA c : c # ".")

\* MagicRecognition.preprocess
preprocess(s) == RStrip(SelectSeq(s, LAMBDA c : c \in Kept))

-----------------------------------------------------------------------------
(* Edit distances (symspellpy.editdistance) *)

\* the least element of a non-empty set of integers
MinOf(S) == CHOOSE m \in S : \A x \in S : m <= x

\* Row i >= 1 of the dynamic program for s and t, from the two rows before
\* it: cell j of a row is its element j + 1.  Cell j is the cheapest of
\* ending with s[i] deleted, s[i] substituted for t[j] (or, with osa, the
\* last two characters transposed), each followed by the insertions that
\* reach column j.
Row(s, t, i, prev, prev2, osa) ==
    LET step(c) ==
            IF c = 0 THEN i
            ELSE LET cost == IF s[i] = t[c] THEN 0 ELSE 1
                     base == Min2(prev[c + 1] + 1, prev[c] + cost)
                 IN  IF osa /\ i > 1 /\ c > 1 /\ s[i] = t[c - 1] /\ s[i - 1] = t[c]
                     THEN Min2(base, prev2[c - 1] + 1)
                     ELSE base
        steps == <<>> \o [c \in 1..(Len(t) + 1) |-> step(c - 1)]
    IN  <<>> \o [j \in 1..(Len(t) + 1) |->
                    MinOf({steps[c] + (j - c) : c \in 1..j})]

RECURSIVE Rows(_, _, _, _, _, _)
\* the last row, from row i on (a row is evaluated before the next is asked for)
Rows(s, t, i, prev, prev2, osa) ==
    IF i > Len(s) THEN prev
    ELSE LET cur == Row(s, t, i, prev, prev2, osa)
         IN  IF Len(cur) = Len(prev) THEN Rows(s, t, i + 1, cur, prev, osa)
             ELSE <<>>

\* the edit distance of s and t
Distance(s, t, osa) ==
    LET row0 == <<>> \o [j \in 1..(Len(t) + 1) |-> j - 1]
    IN  Rows(s, t, 1, row0, row0, osa)[Len(t) + 1]

\* DistanceAlgorithm.LEVENSHTEIN
Levenshtein(s, t) == Distance(s, t, FALSE)
\* DistanceAlgorithm.DAMERAU_OSA, SymSpell's default
DamerauOSA(s, t) == Distance(s, t, TRUE)

\* EditDistance.compare(s, t, max_distance): the distance, or -1 above max_distance
compare(s, t, max) ==
    LET d == Levenshtein(s, t) IN IF d <= max THEN d ELSE -1

-----------------------------------------------------------------------------
(* SymSpell.lookup(phrase, Verbosity.CLOSEST, max_edit_distance) *)

\* The terms of words at the smallest distance from t that is at most max
\* (all of them: which one comes first in the returned list is SymSpell's
\* internal order).
Lookup(words, t, max, osa) ==
    LET cand == {w \in words : Len(w) - Len(t) <= max /\ Len(t) - Len(w) <= max}
        d    == [w \in cand |-> Distance(t, w, osa)]
        near == {w \in cand : d[w] <= max}
    IN  {w \in near : \A v \in near : d[w] <= d[v]}

-----------------------------------------------------------------------------
(* MagicRecognition.search *)

NoCard == [found |-> FALSE, card |-> <<>>]
Hit(c) == [found |-> TRUE, card |-> c]

TooShortStrict(t) == Len(t) <= MinTextLen
\* len(text) < 3
TooShort(t) == Len(t) < MinTextLen

\* len(text) > 30
TooLong(t) == Len(t) > MaxTextLen

\* int(self.max_ratio_diff * i)
PrefixBudget(i) == IntRatio(RatioNum, RatioDen, i)

CardMaxEditUncapped(n) == IntRatio(RatioNum, RatioDen, n)
\* min(6, int(self.max_ratio_diff * len(text)))
CardMaxEdit(n) == Min2(MaxCardEdit, IntRatio(RatioNum, RatioDen, n))

RECURSIVE PrefixScanTies(_, _, _, _, _, _)
PrefixScanTies(cards, p, i, j, card, dist) ==
    IF j > Len(cards) THEN card
    ELSE LET d == compare(p, Prefix(cards[j], i), dist)
         IN  IF d # -1 /\ d <= dist
             THEN PrefixScanTies(cards, p, i, j + 1, Hit(cards[j]), d)
             ELSE PrefixScanTies(cards, p, i, j + 1, card, dist)

RECURSIVE PrefixScan(_, _, _, _, _, _)
\* the loop "for c in self.all_cards" from the j-th card on, with the best
\* card and distance so far
PrefixScan(cards, p, i, j, card, dist) ==
    IF j > Len(cards) THEN card
    ELSE LET d == compare(p, Prefix(cards[j], i), dist)
         IN  IF d # -1 /\ d < dist
             THEN PrefixScan(cards, p, i, j + 1, Hit(cards[j]), d)
             ELSE PrefixScan(cards, p, i, j + 1, card, dist)

AcceptText(t, c) == Hit(t)
\* the fuzzy path's answer for the suggestion c of the stripped text t
Accept(t, c) == IF Len(t) < Len(c) + LenSlack THEN Hit(c) ELSE NoCard

\* the text the fuzzy path looks up
FuzzyText(t) == RStrip(StripDots(t))

\* The outcomes of search(text): one, except where the closest suggestions tie.
search(cards, t) ==
    IF TooShort(t) THEN {NoCard}
    ELSE IF TooLong(t) THEN {NoCard}
    ELSE IF t \in Range(cards) THEN {Hit(t)}
    ELSE LET i == FindDots(t)
         IN  IF i # -1
             THEN {PrefixScan(cards, Prefix(t, i), i, 1, NoCard, PrefixBudget(i))}
             ELSE LET t2  == FuzzyText(t)
                      sug == Lookup(Range(cards), t2, CardMaxEdit(Len(t2)), FALSE)
                  IN  IF sug = {} THEN {NoCard}
                      ELSE {Accept(t2, c) : c \in sug}

-----------------------------------------------------------------------------
(* Strings of the model *)

Island          == <<"I","s","l","a","n","d">>
Inland          == <<"I","n","l","a","n","d">>
IslandSanctuary == Island \o <<" ","S","a","n","c","t","u","a","r","y">>
InlandSea       == Inland \o <<" ","S","e","a">>
Opt             == <<"O","p","t">>
Flash           == <<"F","l","a","s","h">>
\* a card name of 31 characters
Asmor24 ==
    <<"A","s","m","o","r","a","n","o","m","a","r","d","i","c","a","d","a","i","s","t","i","n","a","c">>
Asmor25 == Asmor24 \o <<"u">>
Asmor31 == Asmor25 \o <<"l","d","a","c","a","r">>

Dots == <<".", ".">>

\* the names a card index of the model is made of
SearchNames == {Island, Inland, IslandSanctuary, InlandSea, Opt, Asmor31}

\* the texts search is called with
SearchTexts ==
    SearchNames \cup
    { <<"O","w">>,
      <<"I","s","l">> \o Dots,
      <<"I","s","l","a">> \o Dots,
      <<"I","s","l","a","n","d"," ","S">> \o Dots,
      <<"I","s","l","a","m","d"," ","S">> \o Dots,
      <<"I","s","l","a","n","b">>,
      <<"I","x","l","a","n","d">>,
      InlandSea \o <<".">>,
      <<"O","p","t","s">>,
      Asmor24, Asmor25 }

\* the most names a card index of the model holds
MaxIndex == 3

RECURSIVE SeqsNoDup(_, _)
\* the sequences of at most n distinct elements of S
SeqsNoDup(S, n) ==
    IF n = 0 THEN {<<>>}
    ELSE LET shorter == SeqsNoDup(S, n - 1)
         IN  shorter \cup
             UNION {{Append(s, x) : x \in S \ Range(s)} : s \in shorter}

-----------------------------------------------------------------------------
(* BoxTextList *)

BoxText(b, t, n) == [box |-> b, text |-> t, n |-> n]

\* the order of BoxTextList.sort: top to bottom, then left to right
BoxBefore(b1, b2) == b1[2] < b2[2] \/ (b1[2] = b2[2] /\ b1[1] < b2[1])

RECURSIVE Insert(_, _)
\* e put into the sorted list l, after the entries that are not after it
Insert(l, e) ==
    IF l = <<>> THEN <<e>>
    ELSE IF BoxBefore(e.box, l[Len(l)].box)
         THEN Append(Insert(SubSeq(l, 1, Len(l) - 1), e), l[Len(l)])
         ELSE Append(l, e)

RECURSIVE SortBoxes(_)
\* BoxTextList.sort, stable
SortBoxes(l) ==
    IF l = <<>> THEN <<>>
    ELSE Insert(SortBoxes(SubSeq(l, 1, Len(l) - 1)), l[Len(l)])

-----------------------------------------------------------------------------
(* MagicRecognition.box_texts_to_cards *)

KwMaxEditExact(n) == 0
\* min(3, int(self.max_ratio_diff_keyword * len(text)))
KwMaxEdit(n) == Min2(MaxKeywordEdit, IntRatio(KwRatioNum, KwRatioDen, n))

\* sug != [] for the keyword lookup of t
KeywordRejected(kws, t) == Lookup(kws, t, KwMaxEdit(Len(t)), TRUE) # {}

-----------------------------------------------------------------------------
(* MagicRecognition.assign_stacked *)

dist(p, q) == (p[1] - q[1]) * (p[1] - q[1]) + (p[2] - q[2]) * (p[2] - q[2])

comp_md_far(box1, box2, box) == dist(box, box1) > dist(box, box2)
comp_md(box1, box2, box) == dist(box, box1) < dist(box, box2)

comp_sb(box1, box2, box) ==
    IF box1[1] > box[1] \/ box1[2] > box[2] THEN FALSE
    ELSE dist(box, box1) < dist(box, box2)

\* comp[i]: i = 0 for a label with the glyph first, 1 with the digit first
comp(i, box1, box2, box) ==
    IF i = 0 THEN comp_md(box1, box2, box) ELSE comp_sb(box1, box2, box)

RECURSIVE BestFrom(_, _, _, _, _)
\* assign_stacked_one's loop from entry j on, i_min being the best so far
\* (entries are numbered from 1)
BestFrom(cards, i, box, j, i_min) ==
    IF j > Len(cards) THEN i_min
    ELSE BestFrom(cards, i, box, j + 1,
                  IF comp(i, cards[j].box, cards[i_min].box, box) THEN j ELSE i_min)

\* the entry assign_stacked_one overwrites, for a non-empty list
i_min_of(cards, i, box) == BestFrom(cards, i, box, 1, 1)

\* the i in [0, 1] for which text[i] is a glyph and text[1 - i] is numeric;
\* at most one is, and -1 stands for none
LabelKind(t) ==
    IF Len(t) # 2 THEN -1
    ELSE IF t[1] \in Glyphs /\ IsNumeric(t[2]) THEN 0
    ELSE IF t[2] \in Glyphs /\ IsNumeric(t[1]) THEN 1
    ELSE -1

\* text[1 - i] of a label
LabelDigit(t) == IF LabelKind(t) = 0 THEN t[2] ELSE t[1]

-----------------------------------------------------------------------------
(* MagicRecognition.box_texts_to_stacked_cards: the deck *)

EmptyPile == [c \in {} |-> 0]

add_cards_overwrite(deck, card, p) ==
    IF p > 0 THEN [c \in DOMAIN deck \cup {card} |-> IF c = card THEN p ELSE deck[c]]
    ELSE deck
\* add_cards(deck, p) for the loop's card
add_cards(deck, card, p) ==
    IF card \in DOMAIN deck THEN [deck EXCEPT ![card] = @ + p]
    ELSE IF p > 0
         THEN [c \in DOMAIN deck \cup {card} |-> IF c = card THEN p ELSE deck[c]]
         ELSE deck

RECURSIVE SumN(_)
\* sum(c.n for c in box_cards)
SumN(cards) ==
    IF cards = <<>> THEN 0
    ELSE SumN(SubSeq(cards, 1, Len(cards) - 1)) + cards[Len(cards)].n

last_main_card_all(n_cards) == Max2(MainSize, n_cards)
\* max(60, n_cards - 15)
last_main_card(n_cards) == Max2(MainSize, n_cards - SideSize)

\* max(min(n, last_main_card - n_added), 0)
n_added_main(n, last, n_added) == Max2(Min2(n, last - n_added), 0)

RECURSIVE Split(_, _, _, _, _, _)
\* the loop "for _, card, n in box_cards" from entry j on
Split(cards, j, last, n_added, main, side) ==
    IF j > Len(cards) THEN [maindeck |-> main, sideboard |-> side]
    ELSE LET card == cards[j].text
             n    == cards[j].n
             m    == n_added_main(n, last, n_added)
             main2 == add_cards(main, card, m)
             side2 == add_cards(side, card, n - m)
         IN  Split(cards, j + 1, last, n_added + n, main2, side2)

-----------------------------------------------------------------------------
(* box_texts_to_stacked_cards, step by step *)

\* box_texts.sort()
Sort ==
    /\ pc = "sort"
    /\ box_texts' = SortBoxes(box_texts)
    /\ pos' = 1
    /\ pc' = IF box_texts = <<>> THEN "deck" ELSE "cards"
    /\ UNCHANGED <<cardIndex, keywords, box_cards, origin, searched, assigned,
                   maindeck, sideboard, text, result>>

\* one iteration of the loop of box_texts_to_cards; after the last one,
\* assign_stacked starts
ResolveBox ==
    /\ pc = "cards"
    /\ LET t == box_texts[pos].text
       IN  IF KeywordRejected(keywords, t)
           THEN UNCHANGED <<box_cards, origin, searched>>
           ELSE /\ searched' = searched \cup {pos}
                /\ \E r \in search(cardIndex, preprocess(t)) :
                      IF r.found
                      THEN /\ box_cards' = Append(box_cards,
                                                  BoxText(box_texts[pos].box, r.card, DefaultN))
                           /\ origin' = Append(origin, pos)
                      ELSE UNCHANGED <<box_cards, origin>>
    /\ IF pos = Len(box_texts)
       THEN pos' = 1 /\ pc' = "assign"
       ELSE pos' = pos + 1 /\ pc' = pc
    /\ UNCHANGED <<cardIndex, keywords, box_texts, assigned, maindeck, sideboard,
                   text, result>>

\* one iteration of the loop of assign_stacked; int() raises ValueError for a
\* numeric character that is no decimal digit, and box_cards[i_min] raises
\* IndexError for an empty list
AssignBox ==
    /\ pc = "assign"
    /\ LET t    == box_texts[pos].text
           i    == LabelKind(t)
           next == IF pos = Len(box_texts) THEN "deck" ELSE "assign"
       IN  IF i = -1
           THEN /\ pc' = next
                /\ UNCHANGED <<box_cards, assigned>>
           ELSE IF LabelDigit(t) \notin Digits
           THEN /\ pc' = "ValueError"
                /\ UNCHANGED <<box_cards, assigned>>
           ELSE IF box_cards = <<>>
           THEN /\ pc' = "IndexError"
                /\ UNCHANGED <<box_cards, assigned>>
           ELSE LET best == i_min_of(box_cards, i, box_texts[pos].box)
                IN  /\ box_cards' = [box_cards EXCEPT ![best].n = DigitValue(LabelDigit(t))]
                    /\ assigned' = Append(assigned, [label |-> pos, target |-> best])
                    /\ pc' = next
    /\ pos' = pos + 1
    /\ UNCHANGED <<cardIndex, keywords, box_texts, origin, searched, maindeck,
                   sideboard, text, result>>

\* the deck: both piles from the counted entries
Assemble ==
    /\ pc = "deck"
    /\ LET deck == Split(box_cards, 1, last_main_card(SumN(box_cards)), 0,
                         EmptyPile, EmptyPile)
       IN  /\ maindeck' = deck.maindeck
           /\ sideboard' = deck.sideboard
    /\ pc' = "done"
    /\ UNCHANGED <<cardIndex, keywords, box_texts, box_cards, origin, searched,
                   assigned, pos, text, result>>

-----------------------------------------------------------------------------
(* A direct call of search *)

InitSearch ==
    /\ cardIndex \in SeqsNoDup(SearchNames, MaxIndex)
    /\ text \in SearchTexts
    /\ result = NoCard
    /\ keywords = {}
    /\ box_texts = <<>>
    /\ box_cards = <<>>
    /\ origin = <<>>
    /\ searched = {}
    /\ assigned = <<>>
    /\ pos = 0
    /\ maindeck = EmptyPile
    /\ sideboard = EmptyPile
    /\ pc = "call"

SearchCall ==
    /\ pc = "call"
    /\ \E r \in search(cardIndex, text) : result' = r
    /\ pc' = "ret"
    /\ UNCHANGED <<cardIndex, keywords, box_texts, box_cards, origin, searched,
                   assigned, pos, maindeck, sideboard, text>>

NextSearch == SearchCall

SpecSearch == InitSearch /\ [][NextSearch]_vars

-----------------------------------------------------------------------------
(* A run of box_texts_to_stacked_cards *)

Land  == <<"L","a","n","d">>
Falsh == <<"F","a","l","s","h">>

\* the engine's dictionaries in a run
RunCards    == <<Island, Opt, Flash, IslandSanctuary>>
RunKeywords == {Flash, Land}

\* count labels
x4    == <<"x","4">>
x2    == <<"X","2">>
d4x   == <<"4","x">>
xSup2 == <<"x","SUP2">>
xZero == <<"MULT","0">>

\* the most boxes of a scan
MaxBoxes == 3

\* scans of cards and their count labels, spread over the image
LayoutBoxes ==
    {BoxText(b, t, DefaultN) :
        b \in {<<3, 1>>, <<0, 2>>, <<2, 2>>},
        t \in {Island, Opt, x4, x2, d4x}}

\* scans of noisy texts, in one column
NoisyBoxes ==
    {BoxText(<<0, y>>, t, DefaultN) :
        y \in {0},
        t \in {Island, <<"I","s","l","a">> \o Dots, <<"I","s","l","a","n","b">>,
               Flash, Falsh, <<"O","p","t","!">>, xZero, xSup2}}

RECURSIVE SeqsUpTo(_, _)
\* the sequences of at most n elements of S
SeqsUpTo(S, n) ==
    IF n = 0 THEN {<<>>}
    ELSE LET shorter == SeqsUpTo(S, n - 1)
         IN  shorter \cup {Append(s, x) : s \in shorter, x \in S}

Init ==
    /\ cardIndex = RunCards
    /\ keywords = RunKeywords
    /\ box_texts \in SeqsUpTo(LayoutBoxes, MaxBoxes) \cup SeqsUpTo(NoisyBoxes, MaxBoxes)
    /\ box_cards = <<>>
    /\ origin = <<>>
    /\ searched = {}
    /\ assigned = <<>>
    /\ pos = 0
    /\ maindeck = EmptyPile
    /\ sideboard = EmptyPile
    /\ text = <<>>
    /\ result = NoCard
    /\ pc = "sort"

Next == Sort \/ ResolveBox \/ AssignBox \/ Assemble

Spec == Init /\ [][Next]_vars

-----------------------------------------------------------------------------
(* The deck of a counted list *)

\* the most entries of a counted list (a label gives a count of at most 9:
\* 9 entries reach a total above 60 + 15)
MaxEntries == 9

\* the entries of a counted list: two names, the largest count a label gives
\* and a count of 0
DeckEntries ==
    { BoxText(<<0, 0>>, Island, 9), BoxText(<<0, 0>>, Opt, 9),
      BoxText(<<0, 0>>, Island, 0) }

InitDeck ==
    /\ cardIndex = RunCards
    /\ keywords = RunKeywords
    /\ box_texts = <<>>
    /\ box_cards \in SeqsUpTo(DeckEntries, MaxEntries)
    /\ origin = <<>>
    /\ searched = {}
    /\ assigned = <<>>
    /\ pos = 0
    /\ maindeck = EmptyPile
    /\ sideboard = EmptyPile
    /\ text = <<>>
    /\ result = NoCard
    /\ pc = "deck"

NextDeck == Assemble

SpecDeck == InitDeck /\ [][NextDeck]_vars

-----------------------------------------------------------------------------
(* Properties *)

RECURSIVE SumTo(_, _)
\* f[1] + ... + f[n]
SumTo(f, n) == IF n = 0 THEN 0 ELSE SumTo(f, n - 1) + f[n]

RECURSIVE SumOver(_, _)
\* the sum of pile over the names of S
SumOver(pile, S) ==
    IF S = {} THEN 0
    ELSE LET c == CHOOSE x \in S : TRUE IN pile[c] + SumOver(pile, S \ {c})

PileSum(pile) == SumOver(pile, DOMAIN pile)
Quantity(pile, c) == IF c \in DOMAIN pile THEN pile[c] ELSE 0

\* the counts of the entries before entry j
AddedBefore(j) == SumTo([i \in 1..(j - 1) |-> box_cards[i].n], j - 1)
TotalUnits == SumTo([i \in 1..Len(box_cards) |-> box_cards[i].n], Len(box_cards))
LastMain == IF TotalUnits - 15 > 60 THEN TotalUnits - 15 ELSE 60

\* C1: the quantities of the returned deck's two piles add up to the sum of
\* the counts n of the resolved entries, repeated names and counts of 0
\* included.
C1_Conservation ==
    pc = "done" => PileSum(maindeck) + PileSum(sideboard) = TotalUnits

C1_Witness ==
    /\ pc = "done"
    /\ TotalUnits > 60
    /\ sideboard # EmptyPile
    /\ \E i, j \in 1..Len(box_cards) :
          i < j /\ box_cards[i].text = box_cards[j].text /\ box_cards[j].n = 0

\* what entry j gives the maindeck: min(n, max(last_main_card - added, 0))
MainShare(j) ==
    LET room == IF LastMain - AddedBefore(j) > 0 THEN LastMain - AddedBefore(j) ELSE 0
    IN  IF box_cards[j].n < room THEN box_cards[j].n ELSE room

\* the units of entry j, numbered in scan order from 1, that come after the
\* first LastMain units
LateUnits(j) ==
    Cardinality({u \in (AddedBefore(j) + 1)..(AddedBefore(j) + box_cards[j].n) :
                    u > LastMain})

\* C2: the split is positional.  Each entry gives the maindeck
\* min(n, max(last_main_card - added, 0)) copies, the units after the first
\* last_main_card in scan order are the sideboard's, whatever the names, and
\* with a total of at most 60 the sideboard is empty.
C2_PositionalSplit ==
    pc = "done" =>
        LET names == {box_cards[j].text : j \in 1..Len(box_cards)}
            of(c, f) == SumTo([j \in 1..Len(box_cards) |->
                                  IF box_cards[j].text = c THEN f[j] ELSE 0],
                              Len(box_cards))
            main == [j \in 1..Len(box_cards) |-> MainShare(j)]
            late == [j \in 1..Len(box_cards) |-> LateUnits(j)]
        IN  /\ DOMAIN maindeck \cup DOMAIN sideboard \subseteq names
            /\ \A c \in names :
                  /\ Quantity(maindeck, c) = of(c, main)
                  /\ Quantity(sideboard, c) = of(c, late)
            /\ PileSum(maindeck) = (IF TotalUnits < LastMain THEN TotalUnits ELSE LastMain)
            /\ TotalUnits <= 60 => sideboard = EmptyPile

C2_Witness ==
    /\ pc = "done"
    /\ TotalUnits > 60
    /\ \E j \in 1..Len(box_cards) :
          /\ 0 < MainShare(j) /\ MainShare(j) < box_cards[j].n
          /\ \E i \in 1..(j - 1) : box_cards[i].text # box_cards[j].text
          /\ Quantity(sideboard, box_cards[j].text) > 0

\* C3, as stated: search returns every name of the card index unchanged.
C3_MemberResolves ==
    (pc = "ret" /\ text \in Range(cardIndex)) => result = Hit(text)

\* C3, amended: search returns unchanged every name of the card index that
\* has at least 3 and at most 30 characters.
C3_MemberInRangeResolves ==
    (pc = "ret" /\ text \in Range(cardIndex) /\ Len(text) >= 3 /\ Len(text) <= 30)
        => result = Hit(text)

C3_Witness ==
    /\ pc = "ret"
    /\ text \in Range(cardIndex)
    /\ Len(text) = 3
    /\ result = Hit(text)

\* the call took the truncated path and returned a card
TruncatedHit ==
    /\ pc = "ret"
    /\ Len(text) >= 3 /\ Len(text) <= 30
    /\ text \notin Range(cardIndex)
    /\ FindDots(text) # -1
    /\ result.found

\* the edit distance of the text before the marker to as many characters of c
PrefixDistance(c) ==
    LET i == FindDots(text)
    IN  Levenshtein(SubSeq(text, 1, i), SubSeq(c, 1, IF Len(c) < i THEN Len(c) ELSE i))

\* C4, as stated: the card the truncated path returns is strictly closer to
\* the prefix than every other card of the index, and closer than
\* floor(name_ratio * i).
C4_StrictlyClosest ==
    TruncatedHit =>
        /\ PrefixDistance(result.card) < (3 * FindDots(text)) \div 10
        /\ \A c \in Range(cardIndex) \ {result.card} :
              PrefixDistance(result.card) < PrefixDistance(c)

\* C4, amended: the card the truncated path returns is closer to the prefix
\* than floor(name_ratio * i), at least as close as every other card of the
\* index, and strictly closer than every card enumerated before it.
C4_ClosestFirst ==
    TruncatedHit =>
        /\ PrefixDistance(result.card) < (3 * FindDots(text)) \div 10
        /\ \E r \in 1..Len(cardIndex) :
              /\ cardIndex[r] = result.card
              /\ \A j \in 1..Len(cardIndex) :
                    /\ PrefixDistance(result.card) <= PrefixDistance(cardIndex[j])
                    /\ j < r => PrefixDistance(result.card) < PrefixDistance(cardIndex[j])

C4_Witness ==
    /\ TruncatedHit
    /\ \E r \in 1..Len(cardIndex) :
          /\ cardIndex[r] = result.card
          /\ \E j \in 1..(r - 1) :
                PrefixDistance(cardIndex[j]) > PrefixDistance(result.card)
          /\ \E j \in (r + 1)..Len(cardIndex) :
                PrefixDistance(cardIndex[j]) = PrefixDistance(result.card)

\* the direction gate of the constrained comparator
UpLeft(b, label) == b[1] <= label[1] /\ b[2] <= label[2]

\* C5: the entry a digit-first label overwrites is up and left of (or level
\* with) the label, and no entry that is so is nearer to the label.  (Stated
\* for the labels that have such an entry: what a label without one should
\* do, the claim does not say.)
C5_GateRespected ==
    \A e \in 1..Len(assigned) :
        LET label  == box_texts[assigned[e].label]
            chosen == box_cards[assigned[e].target].box
        IN  (/\ LabelKind(label.text) = 1
             /\ \E j \in 1..Len(box_cards) : UpLeft(box_cards[j].box, label.box)) =>
                /\ UpLeft(chosen, label.box)
                /\ \A j \in 1..Len(box_cards) :
                      UpLeft(box_cards[j].box, label.box) =>
                          dist(label.box, chosen) <= dist(label.box, box_cards[j].box)

\* C6: box_texts_to_stacked_cards never aborts, whatever the boxes.
C6_NeverAborts == pc \notin {"IndexError", "ValueError"}

\* the call took the fuzzy path
FuzzyPath ==
    /\ pc = "ret"
    /\ Len(text) >= 3 /\ Len(text) <= 30
    /\ text \notin Range(cardIndex)
    /\ FindDots(text) = -1

\* C7: on the fuzzy path no returned card has len(text) + 7 characters or
\* more, text being the text looked up, and a card of exactly len(text) + 7
\* characters is not returned.
C7_FuzzyLengthGuard ==
    FuzzyPath =>
        /\ result.found => Len(result.card) < Len(FuzzyText(text)) + 7
        /\ \A c \in Range(cardIndex) :
              Len(c) = Len(FuzzyText(text)) + 7 => result # Hit(c)

C7_Witness ==
    /\ FuzzyPath
    /\ ~result.found
    /\ \E c \in Range(cardIndex) :
          /\ Len(c) = Len(FuzzyText(text)) + 7
          /\ Levenshtein(FuzzyText(text), c) = 7

\* C8: while and after assign_stacked runs, every label processed so far has
\* been bound once, in order; an entry's count is the digit of the last label
\* bound to it, or 1; its box and name are those resolution gave it; and the
\* entry a glyph-first label is bound to is at the least squared distance.
C8_CountsFollowLabels ==
    pc \in {"assign", "deck", "done"} =>
        LET labels == {i \in 1..(pos - 1) : LabelKind(box_texts[i].text) # -1}
        IN  /\ Len(assigned) = Cardinality(labels)
            /\ \A e \in 1..Len(assigned) :
                  /\ assigned[e].label \in labels
                  /\ assigned[e].target \in 1..Len(box_cards)
                  /\ e > 1 => assigned[e - 1].label < assigned[e].label
                  /\ LabelKind(box_texts[assigned[e].label].text) = 0 =>
                        \A j \in 1..Len(box_cards) :
                            dist(box_texts[assigned[e].label].box,
                                 box_cards[assigned[e].target].box)
                              <= dist(box_texts[assigned[e].label].box, box_cards[j].box)
            /\ \A j \in 1..Len(box_cards) :
                  LET hits == {e \in 1..Len(assigned) : assigned[e].target = j}
                      last == CHOOSE e \in hits : \A f \in hits : f <= e
                  IN  /\ box_cards[j].n =
                            IF hits = {} THEN 1
                            ELSE DigitValue(LabelDigit(box_texts[assigned[last].label].text))
                      /\ box_cards[j].box = box_texts[origin[j]].box
                      /\ Hit(box_cards[j].text) \in
                            search(cardIndex, preprocess(box_texts[origin[j]].text))

C8_Witness ==
    /\ pc = "done"
    /\ Len(box_cards) = 2
    /\ Len(assigned) = 1
    /\ LabelKind(box_texts[assigned[1].label].text) = 0
    /\ assigned[1].target = 2
    /\ box_cards[1].n = 1 /\ box_cards[2].n = 4
    /\ box_cards[1].text # box_cards[2].text
    /\ maindeck = [c \in {box_cards[1].text, box_cards[2].text} |->
                      IF c = box_cards[2].text THEN 4 ELSE 1]
    /\ sideboard = EmptyPile

\* the text of box i is within its threshold of a keyword
KeywordNear(i) ==
    LET t   == box_texts[i].text
        cap == (2 * Len(t)) \div 10
    IN  \E w \in keywords : DamerauOSA(t, w) <= (IF cap < 3 THEN cap ELSE 3)

\* the boxes box_texts_to_cards has gone through
Resolved ==
    IF pc \in {"sort", "call", "ret"} THEN {}
    ELSE IF pc = "cards" THEN 1..(pos - 1)
    ELSE 1..Len(box_texts)

\* C9: for a box whose text is within min(3, floor(keyword_ratio * L)) of a
\* keyword, search is not called and no entry is resolved, also when the text
\* is a card name; for every other box search is called.
C9_KeywordPrecedence ==
    \A i \in Resolved :
        IF KeywordNear(i)
        THEN i \notin searched /\ \A j \in 1..Len(origin) : origin[j] # i
        ELSE i \in searched

C9_Witness ==
    /\ pc = "done"
    /\ \E i, j \in 1..Len(box_texts) :
          /\ box_texts[i].text \in Range(cardIndex)
          /\ KeywordNear(i)
          /\ i \notin searched
          /\ box_texts[j].text \notin keywords
          /\ KeywordNear(j)
          /\ j \notin searched
    /\ box_cards = <<>>
    /\ maindeck = EmptyPile

\* C10: every name of the resolved list and of the deck's two piles is a name
\* of the card index, and the card index and the keyword index are the ones
\* the engine was built with.
C10_NamesFromIndex ==
    /\ \A j \in 1..Len(box_cards) : box_cards[j].text \in Range(cardIndex)
    /\ DOMAIN maindeck \subseteq Range(cardIndex)
    /\ DOMAIN sideboard \subseteq Range(cardIndex)
    /\ pc \notin {"call", "ret"} => cardIndex = RunCards /\ keywords = RunKeywords

C10_Witness ==
    /\ pc = "done"
    /\ Len(box_cards) = 3
    /\ \E i, j \in 1..3 :
          /\ FindDots(box_texts[origin[i]].text) # -1
          /\ box_texts[origin[j]].text \notin Range(cardIndex)
          /\ FindDots(box_texts[origin[j]].text) = -1
    /\ \E h \in 1..3 : box_texts[origin[h]].text \in Range(cardIndex)
    /\ DOMAIN maindeck # {}

====
